---- MODULE Spec2Model ----
(***************************************************************************)
(* Chicago transit board: the arrival fetchers (rail, commuter rail, bus), *)
(* the weather cache and the 32x32 bitmap renderer of app.py and           *)
(* led_driver.py, with the stand-alone scripts cta.py and metra.py.        *)
(*                                                                         *)
(* Text is a sequence of one-character strings (<<"D","U","E">>), so that  *)
(* str(), int() and the glyph lookup work on characters.  Python's None is *)
(* the empty sequence and a known value v is <<v>>.  Time is in seconds.   *)
(***************************************************************************)
EXTENDS Integers, Sequences, FiniteSets, TLC

VARIABLES
    now,            \* the clock: datetime.now(chicago), in epoch seconds
    weather_cache,  \* the module-level dict {"temp", "last_updated"}
    call,           \* the operation that ran last ("idle" before any)
    request,        \* what the upstream services answered to that operation
    accepted,       \* the operation's local arrival list before sort/truncate
    ret,            \* the value the operation returned
    raised,         \* TRUE when the operation ended in an exception
    net,            \* get_weather: TRUE when the last call issued a request
    history,        \* the successful weather fetches so far: [at, temp]
    grid,           \* the 32x32 grid the renderer built
    draws,          \* the draw_text calls of the last render, in order
    threads         \* the /led requests being served, each in get_weather

vars == <<now, weather_cache, call, request, accepted, ret, raised, net,
          history, grid, draws, threads>>

None == <<>>
Some(v) == <<v>>

(***************************************************************************)
(* Bounds of the model.                                                    *)
(***************************************************************************)
MaxTrains == 4        \* trains in one rail request, all stations together
MaxFailTrains == 1    \* trains in a rail request with a failing station
MaxPrd == 6           \* predictions of a long bus response
MaxPrdMixed == 3      \* predictions of a bus response over the full alphabet
MaxEntities == 6      \* entities of a long commuter-rail feed
MaxEntitiesMixed == 3 \* entities of a feed over the full alphabet

MaxWindows == 2       \* freshness windows the weather clock runs through
MaxShown == 2         \* feed entities / predictions of a render request

T0 == 100000          \* the clock value at the start

(***************************************************************************)
(* Python built-ins.                                                       *)
(***************************************************************************)
\* round(n / d) for d > 0: to nearest, ties to the even neighbour.
PyRoundDiv(n, d) ==
    LET q == n \div d
        r == n % d
    IN  IF 2 * r < d THEN q
        ELSE IF 2 * r > d THEN q + 1
        ELSE IF q % 2 = 0 THEN q ELSE q + 1

Digits == <<"0", "1", "2", "3", "4", "5", "6", "7", "8", "9">>
IsDigit(c) == \E i \in 1..10 : Digits[i] = c
DigitVal(c) == (CHOOSE i \in 1..10 : Digits[i] = c) - 1

\* str(n) of an integer.
RECURSIVE StrNat(_)
StrNat(n) == IF n < 10 THEN <<Digits[n + 1]>>
             ELSE StrNat(n \div 10) \o <<Digits[(n % 10) + 1]>>
PyStr(n) == IF n < 0 THEN <<"-">> \o StrNat(0 - n) ELSE StrNat(n)

\* int(s) of a string: an optional sign, then one or more digits; anything
\* else is a ValueError (ok = FALSE).
RECURSIVE NatOf(_, _)
NatOf(s, acc) == IF s = <<>> THEN acc
                 ELSE NatOf(Tail(s), 10 * acc + DigitVal(Head(s)))
AllDigits(s) == s /= <<>> /\ \A i \in 1..Len(s) : IsDigit(s[i])
PyInt(s) ==
    IF AllDigits(s) THEN [ok |-> TRUE, v |-> NatOf(s, 0)]
    ELSE IF s /= <<>> /\ Head(s) \in {"-", "+"} /\ AllDigits(Tail(s))
         THEN [ok |-> TRUE,
               v |-> IF Head(s) = "-" THEN 0 - NatOf(Tail(s), 0)
                     ELSE NatOf(Tail(s), 0)]
    ELSE [ok |-> FALSE, v |-> 0]

\* sorted(s, key=lambda x: x["minutes"]): a stable sort, as an insertion of
\* each element after the elements whose key is not larger.
SortedUnstable(s) ==
    LET RECURSIVE Ins(_)
        Ins(t) == IF t = <<>> THEN <<>>
                  ELSE LET u == Ins(SubSeq(t, 1, Len(t) - 1))
                           x == t[Len(t)]
                       IN  SelectSeq(u, LAMBDA e : e.minutes < x.minutes)
                           \o <<x>>
                           \o SelectSeq(u, LAMBDA e : e.minutes >= x.minutes)
    IN  Ins(s)
sorted(s) ==
    LET RECURSIVE Ins(_)
        Ins(t) == IF t = <<>> THEN <<>>
                  ELSE LET u == Ins(SubSeq(t, 1, Len(t) - 1))
                           x == t[Len(t)]
                       IN  SelectSeq(u, LAMBDA e : e.minutes <= x.minutes)
                           \o <<x>>
                           \o SelectSeq(u, LAMBDA e : e.minutes > x.minutes)
    IN  Ins(s)

\* s[:n]
Take(s, n) == SubSeq(s, 1, IF Len(s) < n THEN Len(s) ELSE n)

\* return sorted(arrivals, key=lambda x: x["minutes"])[:5]
FlatTopNNoSort(arrivals) == Take(arrivals, 5)
FlatTopN(arrivals) == Take(sorted(arrivals), 5)

\* What a function returns: a value, or an exception; with the local arrival
\* list it had built by then.
Returned(v, acc) == [raised |-> FALSE, value |-> v, accepted |-> acc]
Raised(acc) == [raised |-> TRUE, value |-> <<>>, accepted |-> acc]

(***************************************************************************)
(* Bus arrivals.                                                           *)
(***************************************************************************)
BUS_STOPS == << [id |-> "1423", name |-> "State & Lake", routes |-> {"2"}] >>

DUE == <<"D", "U", "E">>
DLY == <<"D", "L", "Y">>

\* The answers of the bus-predictions endpoint for one stop: the request
\* fails ("neterr"), the body is no JSON ("badjson"), the JSON is no object
\* with a "bustime-response" object ("shape"), there is no "prd" ("noprd"),
\* or there is a "prd" list ("ok").
BusFailKinds == {"neterr", "badjson", "shape"}
BusResp(kind, prd) == [kind |-> kind, prd |-> prd]

RECURSIVE BusPrdLoopDlyAsDue(_, _, _)
BusPrdLoopDlyAsDue(prd, stop_info, acc) ==
    IF prd = <<>> THEN Returned(<<>>, acc)
    ELSE LET bus == Head(prd)
         IN  IF bus.rt \notin stop_info.routes
             THEN BusPrdLoopDlyAsDue(Tail(prd), stop_info, acc)
             ELSE IF bus.prdctdn \in {DUE, DLY}
             THEN BusPrdLoopDlyAsDue(Tail(prd), stop_info,
                     Append(acc, [route |-> bus.rt, destination |-> bus.des,
                                  stop |-> stop_info.name, minutes |-> 0]))
             ELSE LET m == PyInt(bus.prdctdn)
                  IN  IF ~m.ok THEN Raised(acc)
                      ELSE BusPrdLoopDlyAsDue(Tail(prd), stop_info,
                             Append(acc, [route |-> bus.rt,
                                          destination |-> bus.des,
                                          stop |-> stop_info.name,
                                          minutes |-> m.v]))

\* The loop over data["bustime-response"]["prd"] (app.py; the arrival has
\* four fields).
RECURSIVE BusPrdLoop(_, _, _)
BusPrdLoop(prd, stop_info, acc) ==
    IF prd = <<>> THEN Returned(<<>>, acc)
    ELSE LET bus == Head(prd)
         IN  IF bus.rt \notin stop_info.routes
             THEN BusPrdLoop(Tail(prd), stop_info, acc)
             ELSE IF bus.prdctdn = DUE
             THEN BusPrdLoop(Tail(prd), stop_info,
                     Append(acc, [route |-> bus.rt, destination |-> bus.des,
                                  stop |-> stop_info.name, minutes |-> 0]))
             ELSE IF bus.prdctdn = DLY
             THEN BusPrdLoop(Tail(prd), stop_info, acc)
             ELSE LET m == PyInt(bus.prdctdn)
                  IN  IF ~m.ok THEN Raised(acc)
                      ELSE BusPrdLoop(Tail(prd), stop_info,
                             Append(acc, [route |-> bus.rt,
                                          destination |-> bus.des,
                                          stop |-> stop_info.name,
                                          minutes |-> m.v]))

\* One iteration of the loop over BUS_STOPS: the request, the decoding and
\* the prd loop.
BusStop(resp, stop_info, acc) ==
    IF resp.kind \in BusFailKinds THEN Raised(acc)
    ELSE IF resp.kind = "noprd" THEN Returned(<<>>, acc)
    ELSE BusPrdLoop(resp.prd, stop_info, acc)

\* get_bus_arrivals of app.py: an exception in a stop leaves the function.
RECURSIVE BusStopsApp(_, _, _)
BusStopsApp(resps, i, acc) ==
    IF i > Len(BUS_STOPS) THEN Returned(FlatTopN(acc), acc)
    ELSE LET r == BusStop(resps[i], BUS_STOPS[i], acc)
         IN  IF r.raised THEN r
             ELSE BusStopsApp(resps, i + 1, r.accepted)

get_bus_arrivals(resps) == BusStopsApp(resps, 1, <<>>)

\* get_bus_arrivals of led_driver.py: the arrival has only "minutes", and
\* the try/except inside the loop over BUS_STOPS ends the stop, keeping what
\* was appended before the exception.
DrvArrival(a) == [minutes |-> a.minutes]
DrvArrivals(s) == [i \in 1..Len(s) |-> DrvArrival(s[i])]

RECURSIVE BusStopsDrv(_, _, _)
BusStopsDrv(resps, i, acc) ==
    IF i > Len(BUS_STOPS) THEN Returned(FlatTopN(acc), acc)
    ELSE LET r == BusStop(resps[i], BUS_STOPS[i], acc)
         IN  BusStopsDrv(resps, i + 1, r.accepted)

drv_get_bus_arrivals(resps) ==
    LET r == BusStopsDrv(resps, 1, <<>>)
    IN  Returned(DrvArrivals(r.value), DrvArrivals(r.accepted))

\* Predictions: the full alphabet for short responses, the accepted route
\* with a countdown for long ones (so that more than five are accepted).
Prd(rt, cd) == [rt |-> rt, des |-> "Hyde Park", prdctdn |-> cd]
PrdMixed == { Prd("2", DUE), Prd("2", DLY), Prd("2", <<"3">>),
              Prd("2", <<"1", "2">>), Prd("2", <<"-", "1">>),
              Prd("2", <<>>), Prd("6", <<"3">>), Prd("6", DLY) }
PrdPlain == { Prd("2", DUE), Prd("2", <<"3">>), Prd("2", <<"1", "2">>) }

SeqsUpTo(S, n) == UNION { [1..k -> S] : k \in 0..n }

BusResponses ==
    { BusResp(k, <<>>) : k \in BusFailKinds \cup {"noprd"} }
    \cup { BusResp("ok", p) : p \in SeqsUpTo(PrdMixed, MaxPrdMixed) }
    \cup { BusResp("ok", p) : p \in SeqsUpTo(PrdPlain, MaxPrd) }

BusRequests == { <<r>> : r \in BusResponses }

Finish(op, req, r) ==
    /\ call' = op
    /\ request' = req
    /\ accepted' = r.accepted
    /\ ret' = r.value
    /\ raised' = r.raised

AppGetBusArrivals ==
    /\ call = "idle"
    /\ \E req \in BusRequests : Finish("app.get_bus_arrivals", req,
                                       get_bus_arrivals(req))
    /\ UNCHANGED <<now, weather_cache, net, history, grid, draws, threads>>

DrvGetBusArrivals ==
    /\ call = "idle"
    /\ \E req \in BusRequests : Finish("drv.get_bus_arrivals", req,
                                       drv_get_bus_arrivals(req))
    /\ UNCHANGED <<now, weather_cache, net, history, grid, draws, threads>>

(***************************************************************************)
(* Rail arrivals.                                                          *)
(***************************************************************************)
CTA_STATIONS == << [id |-> "40380", name |-> "Clark/Lake"],
                   [id |-> "41700", name |-> "Washington/Wabash"],
                   [id |-> "41660", name |-> "Lake"] >>

\* The answers of the rail-arrivals endpoint for one station: the request
\* fails ("neterr"), the body is no JSON ("badjson"), the JSON has no
\* "ctatt" ("shape"), "ctatt" has no "eta" ("noeta"), or it has ("ok").
\* A train's arrT is the parsed local timestamp, in epoch seconds.
RailFailKinds == {"neterr", "badjson", "shape"}
RailResp(kind, eta) == [kind |-> kind, eta |-> eta]

\* minutes_away = round((arrival_time - now).total_seconds() / 60)
MinutesAway(time_stamp, t) == PyRoundDiv(time_stamp - t, 60)

RailArrival(train, station_name, t) ==
    [station |-> station_name, route |-> train.rt,
     destination |-> train.destNm, minutes |-> MinutesAway(train.arrT, t)]

\* The loop over data["ctatt"]["eta"] of app.py: only minutes_away >= 0 is
\* appended.
RECURSIVE EtaLoop(_, _, _, _)
EtaLoop(eta, station_name, t, acc) ==
    IF eta = <<>> THEN acc
    ELSE LET a == RailArrival(Head(eta), station_name, t)
         IN  EtaLoop(Tail(eta), station_name, t,
                     IF a.minutes >= 0 THEN Append(acc, a) ELSE acc)

\* The same loop in cta.py: every train is appended.
RECURSIVE EtaLoopScript(_, _, _, _)
EtaLoopScript(eta, station_name, t, acc) ==
    IF eta = <<>> THEN acc
    ELSE EtaLoopScript(Tail(eta), station_name, t,
                       Append(acc, RailArrival(Head(eta), station_name, t)))

\* The loop that fills cta_lines: route -> the arrivals of the route, in
\* the order they were appended.
RECURSIVE GroupLoop(_, _)
GroupLoop(arrivals, lines) ==
    IF arrivals = <<>> THEN lines
    ELSE LET a == Head(arrivals)
             l == IF a.route \in DOMAIN lines THEN lines
                  ELSE lines @@ (a.route :> <<>>)
         IN  GroupLoop(Tail(arrivals),
                       [l EXCEPT ![a.route] = Append(@, a)])

\* cta_lines[route] = sorted(cta_lines[route], key=minutes)[:3]
TopPerLineUnstable(lines) ==
    [r \in DOMAIN lines |-> Take(SortedUnstable(lines[r]), 3)]
TopPerLine(lines) == [r \in DOMAIN lines |-> Take(sorted(lines[r]), 3)]

\* The loop over CTA_STATIONS of app.py, then the grouping.
RECURSIVE RailStations(_, _, _, _)
RailStations(resps, i, t, acc) ==
    IF i > Len(CTA_STATIONS)
    THEN Returned(TopPerLine(GroupLoop(acc, <<>>)), acc)
    ELSE IF resps[i].kind \in RailFailKinds THEN Raised(acc)
    ELSE IF resps[i].kind = "noeta" THEN RailStations(resps, i + 1, t, acc)
    ELSE RailStations(resps, i + 1, t,
                      EtaLoop(resps[i].eta, CTA_STATIONS[i].name, t, acc))

get_cta_arrivals(resps, t) == RailStations(resps, 1, t, <<>>)

\* cta.py, from the loop over STATIONS to the grouped `lines`.
RECURSIVE ScriptStations(_, _, _, _)
ScriptStations(resps, i, t, acc) ==
    IF i > Len(CTA_STATIONS)
    THEN Returned(TopPerLine(GroupLoop(acc, <<>>)), acc)
    ELSE IF resps[i].kind \in RailFailKinds THEN Raised(acc)
    ELSE IF resps[i].kind = "noeta" THEN ScriptStations(resps, i + 1, t, acc)
    ELSE ScriptStations(resps, i + 1, t,
                 EtaLoopScript(resps[i].eta, CTA_STATIONS[i].name, t, acc))

cta_script(resps, t) == ScriptStations(resps, 1, t, <<>>)

\* Rail requests: a sequence of trains cut into the three stations' eta
\* lists, and at most one station answering without an eta list.
Train(rt, dest, delta) == [rt |-> rt, destNm |-> dest, arrT |-> T0 + delta]
Trains == { Train("G", "Harlem", -90), Train("G", "Harlem", 30),
            Train("G", "Cottage Grove", 90), Train("Brn", "Kimball", 30) }

MkRail(s, a, b, f) ==
    LET ok == << RailResp("ok", SubSeq(s, 1, a)),
                 RailResp("ok", SubSeq(s, a + 1, b)),
                 RailResp("ok", SubSeq(s, b + 1, Len(s))) >>
    IN  IF f = <<>> THEN ok
        ELSE [ok EXCEPT ![f[1]] = RailResp(f[2], <<>>)]

RailRequests ==
    { MkRail(x[1], x[2], x[3], <<>>) :
        x \in { y \in SeqsUpTo(Trains, MaxTrains) \X (0..MaxTrains)
                                                  \X (0..MaxTrains) :
                  y[2] <= y[3] /\ y[3] <= Len(y[1]) } }
    \cup
    { MkRail(x[1], x[2], x[3], <<x[4], x[5]>>) :
        x \in { y \in SeqsUpTo(Trains, MaxFailTrains) \X (0..MaxFailTrains)
                      \X (0..MaxFailTrains) \X (1..Len(CTA_STATIONS))
                      \X (RailFailKinds \cup {"noeta"}) :
                  y[2] <= y[3] /\ y[3] <= Len(y[1]) } }

AppGetCtaArrivals ==
    /\ call = "idle"
    /\ \E req \in RailRequests : Finish("app.get_cta_arrivals", req,
                                        get_cta_arrivals(req, now))
    /\ UNCHANGED <<now, weather_cache, net, history, grid, draws, threads>>

CtaScript ==
    /\ call = "idle"
    /\ \E req \in RailRequests : Finish("cta.py", req, cta_script(req, now))
    /\ UNCHANGED <<now, weather_cache, net, history, grid, draws, threads>>

(***************************************************************************)
(* Commuter-rail arrivals.                                                 *)
(***************************************************************************)
\* The answers of the trip-updates endpoint: the request fails ("neterr"),
\* the body is no feed message ("badproto"), or it decodes to entities
\* ("ok").  An entity has a trip update or not; a stop-time update carries
\* departure.time and arrival.time, 0 when the field is not set.
MetraFailKinds == {"neterr", "badproto"}
MetraResp(kind, entity) == [kind |-> kind, entity |-> entity]

\* trip_id.split("_"): the segments between underscores.
RECURSIVE Split(_, _)
Split(s, cur) ==
    IF s = <<>> THEN <<cur>>
    ELSE IF Head(s) = "_" THEN <<cur>> \o Split(Tail(s), <<>>)
    ELSE Split(Tail(s), Append(cur, Head(s)))

\* segment.replace("ME", ""): every occurrence removed, left to right.
RECURSIVE ReplaceME(_)
ReplaceME(s) ==
    IF Len(s) < 2 THEN s
    ELSE IF s[1] = "M" /\ s[2] = "E" THEN ReplaceME(SubSeq(s, 3, Len(s)))
    ELSE <<Head(s)>> \o ReplaceME(Tail(s))

\* time_stamp = stop_update.departure.time or stop_update.arrival.time
TimeStampArrivalFirst(stop_update) ==
    IF stop_update.arrival /= 0 THEN stop_update.arrival
    ELSE stop_update.departure
TimeStamp(stop_update) ==
    IF stop_update.departure /= 0 THEN stop_update.departure
    ELSE stop_update.arrival

\* The loop over trip.stop_time_update of app.py.
RECURSIVE StopLoop(_, _, _, _)
StopLoop(updates, trip, t, acc) ==
    IF updates = <<>> THEN Returned(<<>>, acc)
    ELSE LET stop_update == Head(updates)
             time_stamp == TimeStamp(stop_update)
             minutes_away == MinutesAway(time_stamp, t)
             parts == Split(trip.trip_id, <<>>)
         IN  IF stop_update.stop_id /= "MILLENNIUM"
             THEN StopLoop(Tail(updates), trip, t, acc)
             ELSE IF time_stamp = 0
             THEN StopLoop(Tail(updates), trip, t, acc)
             ELSE IF minutes_away < 0
             THEN StopLoop(Tail(updates), trip, t, acc)
             ELSE IF Len(parts) < 2 THEN Raised(acc)
             ELSE StopLoop(Tail(updates), trip, t,
                     Append(acc, [train |-> ReplaceME(parts[2]),
                                  minutes |-> minutes_away]))

\* The loop over feed.entity of app.py.
RECURSIVE EntityLoop(_, _, _)
EntityLoop(entity, t, acc) ==
    IF entity = <<>> THEN Returned(FlatTopN(acc), acc)
    ELSE LET e == Head(entity)
         IN  IF ~e.has_trip_update THEN EntityLoop(Tail(entity), t, acc)
             ELSE IF e.route_id /= "ME" THEN EntityLoop(Tail(entity), t, acc)
             ELSE LET r == StopLoop(e.stop_time_update, e, t, acc)
                  IN  IF r.raised THEN r
                      ELSE EntityLoop(Tail(entity), t, r.accepted)

get_metra_arrivals(resp, t) ==
    IF resp.kind \in MetraFailKinds THEN Raised(<<>>)
    ELSE EntityLoop(resp.entity, t, <<>>)

\* get_metra_arrivals of led_driver.py: no train number, [] when the
\* bindings are missing ("noimport") and [] on any exception.
RECURSIVE DrvStopLoop(_, _, _)
DrvStopLoop(updates, t, acc) ==
    IF updates = <<>> THEN acc
    ELSE LET stop_update == Head(updates)
             time_stamp == TimeStamp(stop_update)
             minutes_away == MinutesAway(time_stamp, t)
         IN  IF stop_update.stop_id /= "MILLENNIUM"
             THEN DrvStopLoop(Tail(updates), t, acc)
             ELSE IF time_stamp = 0
             THEN DrvStopLoop(Tail(updates), t, acc)
             ELSE IF minutes_away < 0
             THEN DrvStopLoop(Tail(updates), t, acc)
             ELSE DrvStopLoop(Tail(updates), t,
                              Append(acc, [minutes |-> minutes_away]))

RECURSIVE DrvEntityLoop(_, _, _)
DrvEntityLoop(entity, t, acc) ==
    IF entity = <<>> THEN Returned(FlatTopN(acc), acc)
    ELSE LET e == Head(entity)
         IN  IF ~e.has_trip_update THEN DrvEntityLoop(Tail(entity), t, acc)
             ELSE IF e.route_id /= "ME"
             THEN DrvEntityLoop(Tail(entity), t, acc)
             ELSE DrvEntityLoop(Tail(entity), t,
                                DrvStopLoop(e.stop_time_update, t, acc))

drv_get_metra_arrivals(resp, t) ==
    IF resp.kind = "noimport" THEN Returned(<<>>, <<>>)
    ELSE IF resp.kind \in MetraFailKinds THEN Returned(<<>>, <<>>)
    ELSE DrvEntityLoop(resp.entity, t, <<>>)

\* metra.py, the stand-alone script: the same loops with the choice of the
\* time written as if/elif/else, the whole trip id kept, and no handler.
RECURSIVE ScriptStopLoop(_, _, _, _)
ScriptStopLoop(updates, trip, t, acc) ==
    IF updates = <<>> THEN acc
    ELSE LET stop_update == Head(updates)
             time_stamp == IF stop_update.departure /= 0
                           THEN stop_update.departure
                           ELSE stop_update.arrival
             minutes_away == MinutesAway(time_stamp, t)
         IN  IF stop_update.stop_id /= "MILLENNIUM"
             THEN ScriptStopLoop(Tail(updates), trip, t, acc)
             ELSE IF stop_update.departure = 0 /\ stop_update.arrival = 0
             THEN ScriptStopLoop(Tail(updates), trip, t, acc)
             ELSE IF minutes_away < 0
             THEN ScriptStopLoop(Tail(updates), trip, t, acc)
             ELSE ScriptStopLoop(Tail(updates), trip, t,
                     Append(acc, [trip |-> trip.trip_id,
                                  minutes |-> minutes_away]))

RECURSIVE ScriptEntityLoop(_, _, _)
ScriptEntityLoop(entity, t, acc) ==
    IF entity = <<>> THEN Returned(FlatTopN(acc), acc)
    ELSE LET e == Head(entity)
         IN  IF ~e.has_trip_update THEN ScriptEntityLoop(Tail(entity), t, acc)
             ELSE IF e.route_id /= "ME"
             THEN ScriptEntityLoop(Tail(entity), t, acc)
             ELSE ScriptEntityLoop(Tail(entity), t,
                     ScriptStopLoop(e.stop_time_update, e, t, acc))

metra_script(resp, t) ==
    IF resp.kind \in MetraFailKinds THEN Raised(<<>>)
    ELSE ScriptEntityLoop(resp.entity, t, <<>>)

\* Feed entities: the full alphabet for short feeds, accepted trips for
\* long ones (so that more than five are accepted).
StopUpdate(stop_id, dep, arr) ==
    [stop_id |-> stop_id,
     departure |-> IF dep = None THEN 0 ELSE T0 + dep[1],
     arrival |-> IF arr = None THEN 0 ELSE T0 + arr[1]]
TripUpdate(route_id, trip_id, updates) ==
    [has_trip_update |-> TRUE, route_id |-> route_id, trip_id |-> trip_id,
     stop_time_update |-> updates]
TripId(num) == <<"M", "E", "_", "M", "E">> \o num \o <<"_", "V", "3", "_", "B">>

EntitiesPlain ==
    { TripUpdate("ME", TripId(<<"3", "2", "0">>),
                 <<StopUpdate("MILLENNIUM", Some(600), None)>>),
      TripUpdate("ME", TripId(<<"1", "1", "5">>),
                 <<StopUpdate("VANBUREN", Some(60), None),
                   StopUpdate("MILLENNIUM", None, Some(90))>>),
      TripUpdate("ME", TripId(<<"7", "0", "1">>),
                 <<StopUpdate("MILLENNIUM", Some(30), Some(600))>>) }
EntitiesMixed ==
    EntitiesPlain \cup
    { TripUpdate("ME", TripId(<<"2", "0", "0">>),
                 <<StopUpdate("MILLENNIUM", None, None)>>),
      TripUpdate("UP-N", <<"U", "P", "_", "U", "N", "3", "_", "V", "1">>,
                 <<StopUpdate("MILLENNIUM", Some(600), None)>>),
      TripUpdate("ME", TripId(<<"9", "0", "9">>),
                 <<StopUpdate("MILLENNIUM", Some(-90), None)>>),
      TripUpdate("ME", TripId(<<"8", "0", "8">>),
                 <<StopUpdate("MILLENNIUM", None, Some(-20))>>),
      TripUpdate("ME", <<"M", "E", "3", "2", "0">>,
                 <<StopUpdate("MILLENNIUM", Some(30), None)>>),
      [has_trip_update |-> FALSE, route_id |-> "", trip_id |-> <<>>,
       stop_time_update |-> <<>>] }

MetraResponses ==
    { MetraResp(k, <<>>) : k \in MetraFailKinds }
    \cup { MetraResp("ok", e) : e \in SeqsUpTo(EntitiesMixed, MaxEntitiesMixed) }
    \cup { MetraResp("ok", e) : e \in SeqsUpTo(EntitiesPlain, MaxEntities) }

AppGetMetraArrivals ==
    /\ call = "idle"
    /\ \E req \in MetraResponses : Finish("app.get_metra_arrivals", req,
                                          get_metra_arrivals(req, now))
    /\ UNCHANGED <<now, weather_cache, net, history, grid, draws, threads>>

DrvGetMetraArrivals ==
    /\ call = "idle"
    /\ \E req \in MetraResponses \cup {MetraResp("noimport", <<>>)} :
          Finish("drv.get_metra_arrivals", req,
                 drv_get_metra_arrivals(req, now))
    /\ UNCHANGED <<now, weather_cache, net, history, grid, draws, threads>>

MetraScript ==
    /\ call = "idle"
    /\ \E req \in MetraResponses : Finish("metra.py", req,
                                          metra_script(req, now))
    /\ UNCHANGED <<now, weather_cache, net, history, grid, draws, threads>>

(***************************************************************************)
(* Weather.                                                                *)
(***************************************************************************)
FRESH == 600    \* if elapsed < 600 and weather_cache["temp"] is not None

\* The answers of the weather endpoint: the request fails ("neterr"), the
\* body is no JSON ("badjson"), data["current"]["temperature"] is missing
\* ("missing") or is no number ("badtype"), or it is a number ("ok"), given
\* here in tenths of a degree.
WeatherFailKinds == {"neterr", "badjson", "missing", "badtype"}
WeatherResp(kind, tenths) == [kind |-> kind, temperature |-> tenths]

\* What get_weather does: the value returned, the cache afterwards, whether
\* a request was issued and whether it succeeded.
WeatherResult(v, cache, requested, ok) ==
    [value |-> v, cache |-> cache, net |-> requested, ok |-> ok]

get_weather_stale_after(cache, t, resp) ==
    IF /\ cache.last_updated /= None
       /\ t - cache.last_updated[1] <= FRESH
       /\ cache.temp /= None
    THEN WeatherResult(cache.temp, cache, FALSE, FALSE)
    ELSE IF resp.kind \in WeatherFailKinds
    THEN WeatherResult(cache.temp, cache, TRUE, FALSE)
    ELSE LET temp == PyRoundDiv(resp.temperature, 10)
         IN  WeatherResult(Some(temp),
                           [temp |-> Some(temp), last_updated |-> Some(t)],
                           TRUE, TRUE)
get_weather_forgets(cache, t, resp) ==
    IF /\ cache.last_updated /= None
       /\ t - cache.last_updated[1] < FRESH
       /\ cache.temp /= None
    THEN WeatherResult(cache.temp, cache, FALSE, FALSE)
    ELSE IF resp.kind \in WeatherFailKinds
    THEN WeatherResult(None, [temp |-> None, last_updated |-> None],
                       TRUE, FALSE)
    ELSE LET temp == PyRoundDiv(resp.temperature, 10)
         IN  WeatherResult(Some(temp),
                           [temp |-> Some(temp), last_updated |-> Some(t)],
                           TRUE, TRUE)
get_weather_always(cache, t, resp) ==
    IF resp.kind \in WeatherFailKinds
    THEN WeatherResult(cache.temp, cache, TRUE, FALSE)
    ELSE LET temp == PyRoundDiv(resp.temperature, 10)
         IN  WeatherResult(Some(temp),
                           [temp |-> Some(temp), last_updated |-> Some(t)],
                           TRUE, TRUE)
get_weather(cache, t, resp) ==
    IF /\ cache.last_updated /= None
       /\ t - cache.last_updated[1] < FRESH
       /\ cache.temp /= None
    THEN WeatherResult(cache.temp, cache, FALSE, FALSE)
    ELSE IF resp.kind \in WeatherFailKinds
    THEN WeatherResult(cache.temp, cache, TRUE, FALSE)
    ELSE LET temp == PyRoundDiv(resp.temperature, 10)
         IN  WeatherResult(Some(temp),
                           [temp |-> Some(temp), last_updated |-> Some(t)],
                           TRUE, TRUE)

\* led_driver.py has the same function, with "except Exception".
drv_get_weather(cache, t, resp) == get_weather(cache, t, resp)

Temperatures == {-25, 5, 15, 714}
WeatherResponses ==
    { WeatherResp(k, 0) : k \in WeatherFailKinds }
    \cup { WeatherResp("ok", x) : x \in Temperatures }

FinishWeather(op, resp, r) ==
    /\ call' = op
    /\ request' = resp
    /\ ret' = r.value
    /\ raised' = FALSE
    /\ net' = r.net
    /\ weather_cache' = r.cache
    /\ history' = IF r.ok THEN Append(history, [at |-> now, temp |-> r.value[1]])
                  ELSE history

AppGetWeather ==
    /\ \E resp \in WeatherResponses :
          FinishWeather("app.get_weather", resp,
                        get_weather(weather_cache, now, resp))
    /\ UNCHANGED <<now, accepted, grid, draws, threads>>

DrvGetWeather ==
    /\ \E resp \in WeatherResponses :
          FinishWeather("drv.get_weather", resp,
                        drv_get_weather(weather_cache, now, resp))
    /\ UNCHANGED <<now, accepted, grid, draws, threads>>

\* Time passes between calls: just under, exactly, or just over the
\* freshness window.
Tick ==
    /\ \E d \in {FRESH - 1, FRESH, FRESH + 1} :
          /\ now + d - T0 <= MaxWindows * (FRESH + 1)
          /\ now' = now + d
    /\ UNCHANGED <<weather_cache, call, request, accepted, ret, raised, net,
                   history, grid, draws, threads>>

\* get_weather of app.py run by the threads of the web server (app.run
\* serves each request on a thread of its own), one step per statement that
\* another thread can run between: the freshness check, the upstream
\* request, and the two stores into weather_cache.
MaxThreads == 2
MaxFetches == 2     \* requests are started until this many values are stored
Threads == 1..MaxThreads
ThreadAt(pc, t, temp, returned) ==
    [pc |-> pc, now |-> t, temp |-> temp, ret |-> returned]
IdleThread == ThreadAt("idle", 0, None, None)

\* now = datetime.now(chicago); if weather_cache["last_updated"]: ...
\* return weather_cache["temp"]; otherwise on to requests.get(url)
ThreadCheck(th) ==
    /\ threads[th].pc = "idle"
    /\ Len(history) < MaxFetches
    /\ IF /\ weather_cache.last_updated /= None
          /\ now - weather_cache.last_updated[1] < FRESH
          /\ weather_cache.temp /= None
       THEN threads' = [threads EXCEPT
                           ![th] = ThreadAt("idle", now, None, weather_cache.temp)]
       ELSE threads' = [threads EXCEPT
                           ![th] = ThreadAt("requesting", now, None, None)]
    /\ UNCHANGED <<now, weather_cache, call, request, accepted, ret, raised,
                   net, history, grid, draws>>

\* response = requests.get(url); data = response.json();
\* temp = round(data["current"]["temperature"]);
\* except: return weather_cache["temp"]
ThreadRequest(th) ==
    /\ threads[th].pc = "requesting"
    /\ \E resp \in WeatherResponses :
          threads' = [threads EXCEPT ![th] =
              IF resp.kind \in WeatherFailKinds
              THEN ThreadAt("idle", @.now, None, weather_cache.temp)
              ELSE ThreadAt("store_temp", @.now,
                            Some(PyRoundDiv(resp.temperature, 10)), None)]
    /\ UNCHANGED <<now, weather_cache, call, request, accepted, ret, raised,
                   net, history, grid, draws>>

\* weather_cache["temp"] = temp
ThreadStoreTemp(th) ==
    /\ threads[th].pc = "store_temp"
    /\ weather_cache' = [weather_cache EXCEPT !.temp = threads[th].temp]
    /\ threads' = [threads EXCEPT ![th].pc = "store_updated"]
    /\ UNCHANGED <<now, call, request, accepted, ret, raised, net, history,
                   grid, draws>>

\* weather_cache["last_updated"] = now; return temp
ThreadStoreUpdated(th) ==
    /\ threads[th].pc = "store_updated"
    /\ weather_cache' = [weather_cache EXCEPT
                            !.last_updated = Some(threads[th].now)]
    /\ history' = Append(history, [at |-> threads[th].now,
                                   temp |-> threads[th].temp[1]])
    /\ threads' = [threads EXCEPT
                       ![th] = ThreadAt("idle", @.now, None, @.temp)]
    /\ UNCHANGED <<now, call, request, accepted, ret, raised, net, grid,
                   draws>>

(***************************************************************************)
(* The bitmap renderer.                                                    *)
(***************************************************************************)
SIZE == 32      \* grid = [[0] * 32 for _ in range(32)]
PRIMARY == 1
HIGHLIGHT == 2

\* FONT_3X5 of app.py: the rows of each glyph, top to bottom.
FONT_3X5 ==
    "0" :> <<<<1,1,1>>, <<1,0,1>>, <<1,0,1>>, <<1,0,1>>, <<1,1,1>>>> @@
    "1" :> <<<<0,1,0>>, <<1,1,0>>, <<0,1,0>>, <<0,1,0>>, <<1,1,1>>>> @@
    "2" :> <<<<1,1,1>>, <<0,0,1>>, <<1,1,1>>, <<1,0,0>>, <<1,1,1>>>> @@
    "3" :> <<<<1,1,1>>, <<0,0,1>>, <<1,1,1>>, <<0,0,1>>, <<1,1,1>>>> @@
    "4" :> <<<<1,0,1>>, <<1,0,1>>, <<1,1,1>>, <<0,0,1>>, <<0,0,1>>>> @@
    "5" :> <<<<1,1,1>>, <<1,0,0>>, <<1,1,1>>, <<0,0,1>>, <<1,1,1>>>> @@
    "6" :> <<<<1,1,1>>, <<1,0,0>>, <<1,1,1>>, <<1,0,1>>, <<1,1,1>>>> @@
    "7" :> <<<<1,1,1>>, <<0,0,1>>, <<0,0,1>>, <<0,0,1>>, <<0,0,1>>>> @@
    "8" :> <<<<1,1,1>>, <<1,0,1>>, <<1,1,1>>, <<1,0,1>>, <<1,1,1>>>> @@
    "9" :> <<<<1,1,1>>, <<1,0,1>>, <<1,1,1>>, <<0,0,1>>, <<1,1,1>>>> @@
    "A" :> <<<<0,1,0>>, <<1,0,1>>, <<1,1,1>>, <<1,0,1>>, <<1,0,1>>>> @@
    "D" :> <<<<1,1,0>>, <<1,0,1>>, <<1,0,1>>, <<1,0,1>>, <<1,1,0>>>> @@
    "E" :> <<<<1,1,1>>, <<1,0,0>>, <<1,1,1>>, <<1,0,0>>, <<1,1,1>>>> @@
    "F" :> <<<<1,1,1>>, <<1,0,0>>, <<1,1,1>>, <<1,0,0>>, <<1,0,0>>>> @@
    "H" :> <<<<1,0,1>>, <<1,0,1>>, <<1,1,1>>, <<1,0,1>>, <<1,0,1>>>> @@
    "I" :> <<<<1,1,1>>, <<0,1,0>>, <<0,1,0>>, <<0,1,0>>, <<1,1,1>>>> @@
    "M" :> <<<<1,0,0,0,1>>, <<1,1,0,1,1>>, <<1,0,1,0,1>>, <<1,0,0,0,1>>, <<1,0,0,0,1>>>> @@
    "N" :> <<<<1,0,0,0,1>>, <<1,1,0,0,1>>, <<1,0,1,0,1>>, <<1,0,0,1,1>>, <<1,0,0,0,1>>>> @@
    "O" :> <<<<0,1,0>>, <<1,0,1>>, <<1,0,1>>, <<1,0,1>>, <<0,1,0>>>> @@
    "R" :> <<<<1,1,0>>, <<1,0,1>>, <<1,1,0>>, <<1,0,1>>, <<1,0,1>>>> @@
    "S" :> <<<<1,1,1>>, <<1,0,0>>, <<1,1,1>>, <<0,0,1>>, <<1,1,1>>>> @@
    "T" :> <<<<1,1,1>>, <<0,1,0>>, <<0,1,0>>, <<0,1,0>>, <<0,1,0>>>> @@
    "U" :> <<<<1,0,1>>, <<1,0,1>>, <<1,0,1>>, <<1,0,1>>, <<1,1,1>>>> @@
    "W" :> <<<<1,0,0,0,1>>, <<1,0,0,0,1>>, <<1,0,1,0,1>>, <<1,1,0,1,1>>, <<1,0,0,0,1>>>> @@
    "#" :> <<<<0,1,0,1,0>>, <<1,1,1,1,1>>, <<0,1,0,1,0>>, <<1,1,1,1,1>>, <<0,1,0,1,0>>>> @@
    "/" :> <<<<0,0,1>>, <<0,1,0>>, <<0,1,0>>, <<0,1,0>>, <<1,0,0>>>> @@
    ":" :> <<<<0>>, <<1>>, <<0>>, <<1>>, <<0>>>> @@
    "-" :> <<<<0,0,0>>, <<0,0,0>>, <<1,1,1>>, <<0,0,0>>, <<0,0,0>>>> @@
    "." :> <<<<0>>, <<0>>, <<0>>, <<0>>, <<1>>>> @@
    " " :> <<<<0>>, <<0>>, <<0>>, <<0>>, <<0>>>>

\* FONT_3X5 of led_driver.py: the same, but for a three-column "N".
DRV_FONT_3X5 ==
    [c \in DOMAIN FONT_3X5 |->
        IF c = "N" THEN <<<<1,0,1>>, <<1,1,1>>, <<1,1,1>>, <<1,0,1>>, <<1,0,1>>>>
        ELSE FONT_3X5[c]]

EmptyGrid == [y \in 0..(SIZE - 1) |-> [x \in 0..(SIZE - 1) |-> 0]]

\* if 0 <= grid_x < 32 and 0 <= grid_y < 32
InGridUpperOnly(grid_x, grid_y) == grid_x < SIZE /\ grid_y < SIZE
InGrid(grid_x, grid_y) ==
    0 <= grid_x /\ grid_x < SIZE /\ 0 <= grid_y /\ grid_y < SIZE

\* grid[grid_y][grid_x] = color, on a list of SIZE lists of SIZE cells: an
\* index from -SIZE to -1 counts from the end of the list, and any other
\* index outside the list raises IndexError.
IndexError == <<"IndexError">>
PyIndex(i) == IF i < 0 THEN i + SIZE ELSE i
Store(g, grid_x, grid_y, color) ==
    IF grid_x \in (-SIZE)..(SIZE - 1) /\ grid_y \in (-SIZE)..(SIZE - 1)
    THEN [g EXCEPT ![PyIndex(grid_y)][PyIndex(grid_x)] = color]
    ELSE IndexError

\* for col_idx, pixel in enumerate(row)
RECURSIVE DrawRow(_, _, _, _, _, _)
DrawRow(g, row, col_idx, x, grid_y, color) ==
    IF col_idx >= Len(row) \/ g = IndexError THEN g
    ELSE DrawRow(IF row[col_idx + 1] = 1 /\ InGrid(x + col_idx, grid_y)
                 THEN Store(g, x + col_idx, grid_y, color)
                 ELSE g,
                 row, col_idx + 1, x, grid_y, color)

\* for row_idx, row in enumerate(pattern)
RECURSIVE DrawPattern(_, _, _, _, _, _)
DrawPattern(g, pattern, row_idx, x, start_y, color) ==
    IF row_idx >= Len(pattern) \/ g = IndexError THEN g
    ELSE DrawPattern(DrawRow(g, pattern[row_idx + 1], 0, x,
                             start_y + row_idx, color),
                     pattern, row_idx + 1, x, start_y, color)

\* for char in text: a character of the font is drawn and moves x by the
\* width of its first row plus one; another character does nothing.
RECURSIVE DrawCharsUnknownAdvances(_, _, _, _, _, _)
DrawCharsUnknownAdvances(font, g, text, x, start_y, color) ==
    IF text = <<>> THEN g
    ELSE IF Head(text) \in DOMAIN font
    THEN LET pattern == font[Head(text)]
             drawn == DrawPattern(g, pattern, 0, x, start_y, color)
         IN  IF drawn = IndexError THEN drawn
             ELSE DrawCharsUnknownAdvances(font, drawn, Tail(text),
                                           x + Len(pattern[1]) + 1,
                                           start_y, color)
    ELSE DrawCharsUnknownAdvances(font, g, Tail(text), x + 4, start_y, color)
RECURSIVE DrawChars(_, _, _, _, _, _)
DrawChars(font, g, text, x, start_y, color) ==
    IF text = <<>> THEN g
    ELSE IF Head(text) \in DOMAIN font
    THEN LET pattern == font[Head(text)]
             drawn == DrawPattern(g, pattern, 0, x, start_y, color)
         IN  \* an exception out of a store ends the loop
             IF drawn = IndexError THEN drawn
             ELSE DrawChars(font, drawn, Tail(text), x + Len(pattern[1]) + 1,
                            start_y, color)
    ELSE DrawChars(font, g, Tail(text), x, start_y, color)

draw_text(g, text, start_x, start_y, color) ==
    DrawChars(FONT_3X5, g, text, start_x, start_y, color)
drv_draw_text(g, text, start_x, start_y, color) ==
    DrawChars(DRV_FONT_3X5, g, text, start_x, start_y, color)

\* get_time_str(arrivals, index): the text and the color of a time.
Dashes == <<"-", "-">>
get_time_str_one_primary(arrivals, index) ==
    IF arrivals /= <<>> /\ Len(arrivals) > index
    THEN LET mins == arrivals[index + 1].minutes
         IN  <<IF mins > 0 THEN PyStr(mins) ELSE <<"0">>,
               IF mins < 1 THEN HIGHLIGHT ELSE PRIMARY>>
    ELSE <<Dashes, PRIMARY>>
get_time_str_off_by_one(arrivals, index) ==
    IF arrivals /= <<>> /\ Len(arrivals) >= index
    THEN LET mins == arrivals[IF index = 0 THEN 1 ELSE index].minutes
         IN  <<IF mins > 0 THEN PyStr(mins) ELSE <<"0">>,
               IF mins < 2 THEN HIGHLIGHT ELSE PRIMARY>>
    ELSE <<Dashes, PRIMARY>>
get_time_str(arrivals, index) ==
    IF arrivals /= <<>> /\ Len(arrivals) > index
    THEN LET mins == arrivals[index + 1].minutes
         IN  <<IF mins > 0 THEN PyStr(mins) ELSE <<"0">>,
               IF mins < 2 THEN HIGHLIGHT ELSE PRIMARY>>
    ELSE <<Dashes, PRIMARY>>

\* color = 2 if time_str != "--" else 1
FirstColor(time_str) == IF time_str /= Dashes THEN HIGHLIGHT ELSE PRIMARY

\* The steps of a render: a draw_text call, a divider line, a separator dot.
Text(text, x, y, color) ==
    [op |-> "text", text |-> text, x |-> x, y |-> y, color |-> color]
Line(y) == [op |-> "line", text |-> <<>>, x |-> 0, y |-> y, color |-> PRIMARY]
Dot(x, y) == [op |-> "dot", text |-> <<>>, x |-> x, y |-> y, color |-> PRIMARY]

days == << <<"M", "O", "N">>, <<"T", "U", "E">>, <<"W", "E", "D">>,
           <<"T", "H", "U">>, <<"F", "R", "I">>, <<"S", "A", "T">>,
           <<"S", "U", "N">> >>

\* f"{now.month}/{now.day}", f"{temp}F", f"{hour}:{now.minute:02d}"
DateStr(ctx) == PyStr(ctx.month) \o <<"/">> \o PyStr(ctx.day)
TempStr(temp) == PyStr(temp) \o <<"F">>
TimeStr(ctx) ==
    LET hour == IF ctx.hour % 12 = 0 THEN 12 ELSE ctx.hour % 12
    IN  PyStr(hour) \o <<":">>
        \o (IF ctx.minute < 10 THEN <<"0">> ELSE <<>>) \o PyStr(ctx.minute)

\* The steps from "grid = ..." to the end of the function, in the order of
\* the code; date_x, time_x and dot_x are where app.py and led_driver.py
\* differ.
LayoutDotFirst(ctx, metra, bus, temp, date_x, time_x, dot_x) ==
    << Text(days[ctx.weekday + 1], 1, 1, PRIMARY),
       Text(DateStr(ctx), date_x, 1, PRIMARY) >>
    \o (IF temp /= None THEN << Text(TempStr(temp[1]), 1, 8, PRIMARY) >>
        ELSE <<>>)
    \o << Text(TimeStr(ctx), time_x, 8, PRIMARY),
          Line(14),
          Text(<<"M", "E">>, 1, 17, PRIMARY),
          Dot(dot_x, 19),
          Text(get_time_str(metra, 0)[1], 12, 17,
               FirstColor(get_time_str(metra, 0)[1])),
          Text(get_time_str(metra, 1)[1], 24, 17, get_time_str(metra, 1)[2]),
          Line(24),
          Text(<<"#", "2">>, 1, 27, PRIMARY),
          Dot(dot_x, 29),
          Text(get_time_str(bus, 0)[1], 12, 27,
               FirstColor(get_time_str(bus, 0)[1])),
          Text(get_time_str(bus, 1)[1], 24, 27, get_time_str(bus, 1)[2]) >>
Layout(ctx, metra, bus, temp, date_x, time_x, dot_x) ==
    << Text(days[ctx.weekday + 1], 1, 1, PRIMARY),
       Text(DateStr(ctx), date_x, 1, PRIMARY) >>
    \o (IF temp /= None THEN << Text(TempStr(temp[1]), 1, 8, PRIMARY) >>
        ELSE <<>>)
    \o << Text(TimeStr(ctx), time_x, 8, PRIMARY),
          Line(14),
          Text(<<"M", "E">>, 1, 17, PRIMARY),
          Text(get_time_str(metra, 0)[1], 12, 17,
               FirstColor(get_time_str(metra, 0)[1])),
          Dot(dot_x, 19),
          Text(get_time_str(metra, 1)[1], 24, 17, get_time_str(metra, 1)[2]),
          Line(24),
          Text(<<"#", "2">>, 1, 27, PRIMARY),
          Text(get_time_str(bus, 0)[1], 12, 27,
               FirstColor(get_time_str(bus, 0)[1])),
          Dot(dot_x, 29),
          Text(get_time_str(bus, 1)[1], 24, 27, get_time_str(bus, 1)[2]) >>

\* for x in range(32): grid[y][x] = 1
DrawLine(g, y) == [g EXCEPT ![y] = [x \in 0..(SIZE - 1) |-> PRIMARY]]

RECURSIVE Paint(_, _, _)
Paint(font, g, steps) ==
    IF steps = <<>> THEN g
    ELSE LET s == Head(steps)
             drawn == IF s.op = "text"
                      THEN DrawChars(font, g, s.text, s.x, s.y, s.color)
                      ELSE IF s.op = "line" THEN DrawLine(g, s.y)
                      ELSE [g EXCEPT ![s.y][s.x] = s.color]
         IN  \* (the test has TLC compute the grid before the next step)
             IF DOMAIN drawn /= DOMAIN g THEN drawn
             ELSE Paint(font, drawn, Tail(steps))

TextSteps(steps) == SelectSeq(steps, LAMBDA s : s.op = "text")

\* What a render does: the fetchers' results, the weather call's effect,
\* the grid and the draw_text calls; or an exception out of a fetcher.
RenderResult(metra, bus, w, steps, font) ==
    [raised |-> FALSE, metra |-> metra, bus |-> bus, weather |-> w,
     grid |-> Paint(font, EmptyGrid, steps), draws |-> TextSteps(steps)]
RenderRaised(metra, bus, cache) ==
    [raised |-> TRUE, metra |-> metra, bus |-> bus,
     weather |-> WeatherResult(None, cache, FALSE, FALSE),
     grid |-> <<>>, draws |-> <<>>]

\* led() of app.py.
led(req, cache, t) ==
    LET metra == get_metra_arrivals(req.metra, t)
        bus == get_bus_arrivals(req.bus)
        w == get_weather(cache, t, req.weather)
    IN  IF metra.raised THEN RenderRaised(<<>>, <<>>, cache)
        ELSE IF bus.raised THEN RenderRaised(metra.value, <<>>, cache)
        ELSE RenderResult(metra.value, bus.value, w,
                          Layout(req.ctx, metra.value, bus.value, w.value,
                                 17, 15, 21),
                          FONT_3X5)

\* build_grid() of led_driver.py.
build_grid(req, cache, t) ==
    LET metra == drv_get_metra_arrivals(req.metra, t)
        bus == drv_get_bus_arrivals(req.bus)
        w == drv_get_weather(cache, t, req.weather)
    IN  RenderResult(metra.value, bus.value, w,
                     Layout(req.ctx, metra.value, bus.value, w.value,
                            20, 18, 20),
                     DRV_FONT_3X5)

\* Render requests.  The date and time with the weather answer; one source
\* over its render alphabet with the other over a few answers.
Ctx(weekday, month, day, hour, minute) ==
    [weekday |-> weekday, month |-> month, day |-> day, hour |-> hour,
     minute |-> minute]
Surroundings ==
    { <<Ctx(0, 1, 5, 0, 5), WeatherResp("neterr", 0)>>,
      <<Ctx(6, 12, 31, 23, 59), WeatherResp("ok", 714)>>,
      <<Ctx(2, 6, 15, 13, 30), WeatherResp("ok", -25)>> }

MetraTrip(num, delta) ==
    TripUpdate("ME", TripId(num), <<StopUpdate("MILLENNIUM", Some(delta), None)>>)
EntitiesShown ==
    { MetraTrip(<<"1", "0", "1">>, 30), MetraTrip(<<"1", "0", "3">>, 60),
      MetraTrip(<<"1", "0", "5">>, 90), MetraTrip(<<"3", "2", "0">>, 600),
      MetraTrip(<<"1", "0", "7">>, 7200),
      TripUpdate("ME", <<"M", "E", "3", "2", "0">>,
                 <<StopUpdate("MILLENNIUM", Some(30), None)>>) }
PrdShown == { Prd("2", DUE), Prd("2", <<"1">>), Prd("2", <<"2">>),
              Prd("2", <<"1", "2">>), Prd("2", <<"1", "2", "0">>),
              Prd("2", DLY), Prd("2", <<>>) }

MetraShown ==
    { MetraResp(k, <<>>) : k \in MetraFailKinds }
    \cup { MetraResp("ok", e) : e \in SeqsUpTo(EntitiesShown, MaxShown) }
BusShown ==
    { <<BusResp(k, <<>>)>> : k \in BusFailKinds \cup {"noprd"} }
    \cup { <<BusResp("ok", p)>> : p \in SeqsUpTo(PrdShown, MaxShown) }
MetraFew ==
    { MetraResp("neterr", <<>>), MetraResp("ok", <<>>),
      MetraResp("ok", <<MetraTrip(<<"3", "2", "0">>, 600)>>) }
BusFew ==
    { <<BusResp("neterr", <<>>)>>, <<BusResp("ok", <<>>)>>,
      <<BusResp("ok", <<Prd("2", <<"1", "2">>)>>)>> }

RenderRequests ==
    { [ctx |-> s[1], weather |-> s[2], metra |-> m[1], bus |-> m[2]] :
        s \in Surroundings,
        m \in (MetraShown \X BusFew) \cup (MetraFew \X BusShown) }

FinishRender(op, req, r) ==
    /\ call' = op
    /\ request' = req
    /\ accepted' = <<>>
    /\ ret' = [metra |-> r.metra, bus |-> r.bus, temp |-> r.weather.value]
    /\ raised' = r.raised
    /\ net' = r.weather.net
    /\ weather_cache' = r.weather.cache
    /\ history' = IF r.weather.ok
                  THEN Append(history, [at |-> now, temp |-> r.weather.value[1]])
                  ELSE history
    /\ grid' = r.grid
    /\ draws' = r.draws

AppLed ==
    /\ call = "idle"
    /\ \E req \in RenderRequests :
          FinishRender("app.led", req, led(req, weather_cache, now))
    /\ UNCHANGED <<now, threads>>

DrvBuildGrid ==
    /\ call = "idle"
    /\ \E req \in RenderRequests :
          FinishRender("drv.build_grid", req,
                       build_grid(req, weather_cache, now))
    /\ UNCHANGED <<now, threads>>

\* draw_text called on its own.  The grid it is given is empty or already
\* holds the dividers and a label; the text has characters of the font, of
\* both fonts' "N", and characters of neither font; the start position runs
\* from MaxOut cells before the grid to MaxOut cells past it.
MaxOut == 6
PriorGrids ==
    { EmptyGrid,
      Paint(FONT_3X5, EmptyGrid,
            <<Line(14), Text(<<"M", "E">>, 1, 17, HIGHLIGHT), Line(24)>>) }
Texts ==
    { <<>>, <<"1">>, <<"M", "N">>, <<"1", "x", "2">>, <<"x">>,
      <<"-", ":", "8">>, <<"?", "W", "?", ".">> }
Coordinates ==
    ((-MaxOut)..1) \cup {12} \cup ((SIZE - 2)..(SIZE + MaxOut - 1))
DrawRequests ==
    [grid : PriorGrids, text : Texts, start_x : Coordinates,
     start_y : Coordinates, color : {PRIMARY, HIGHLIGHT}]

\* The list is changed in place and nothing is returned; an exception
\* leaves no grid to look at.
FinishDraw(op, req, g) ==
    /\ call' = op
    /\ request' = req
    /\ ret' = None
    /\ raised' = (g = IndexError)
    /\ grid' = IF g = IndexError THEN <<>> ELSE g
    /\ UNCHANGED <<now, weather_cache, accepted, net, history, draws, threads>>

AppDrawText ==
    /\ call = "idle"
    /\ \E req \in DrawRequests :
          FinishDraw("app.draw_text", req,
                     draw_text(req.grid, req.text, req.start_x, req.start_y,
                               req.color))

DrvDrawText ==
    /\ call = "idle"
    /\ \E req \in DrawRequests :
          FinishDraw("drv.draw_text", req,
                     drv_draw_text(req.grid, req.text, req.start_x,
                                   req.start_y, req.color))

(***************************************************************************)
(* Specifications.                                                         *)
(***************************************************************************)
Init ==
    /\ now = T0
    /\ weather_cache = [temp |-> None, last_updated |-> None]
    /\ call = "idle"
    /\ request = <<>>
    /\ accepted = <<>>
    /\ ret = <<>>
    /\ raised = FALSE
    /\ net = FALSE
    /\ history = <<>>
    /\ grid = <<>>
    /\ draws = <<>>
    /\ threads = [th \in Threads |-> IdleThread]

NextFetch ==
    \/ AppGetCtaArrivals
    \/ CtaScript
    \/ AppGetMetraArrivals
    \/ DrvGetMetraArrivals
    \/ MetraScript
    \/ AppGetBusArrivals
    \/ DrvGetBusArrivals

SpecFetch == Init /\ [][NextFetch]_vars

NextWeather ==
    \/ Tick
    \/ AppGetWeather
    \/ DrvGetWeather

SpecWeather == Init /\ [][NextWeather]_vars

NextThreads ==
    \/ Tick
    \/ \E th \in Threads : ThreadCheck(th)
    \/ \E th \in Threads : ThreadRequest(th)
    \/ \E th \in Threads : ThreadStoreTemp(th)
    \/ \E th \in Threads : ThreadStoreUpdated(th)

SpecThreads == Init /\ [][NextThreads]_vars

\* A render starts with the weather cache empty, or filled by a fetch at
\* the same clock value.
InitRender ==
    /\ now = T0
    /\ \/ weather_cache = [temp |-> None, last_updated |-> None]
          /\ history = <<>>
       \/ weather_cache = [temp |-> Some(68), last_updated |-> Some(T0)]
          /\ history = <<[at |-> T0, temp |-> 68]>>
    /\ call = "idle"
    /\ request = <<>>
    /\ accepted = <<>>
    /\ ret = <<>>
    /\ raised = FALSE
    /\ net = FALSE
    /\ grid = <<>>
    /\ draws = <<>>
    /\ threads = [th \in Threads |-> IdleThread]

NextRender ==
    \/ AppLed
    \/ DrvBuildGrid

SpecRender == InitRender /\ [][NextRender]_vars

NextDraw ==
    \/ AppDrawText
    \/ DrvDrawText

SpecDraw == Init /\ [][NextDraw]_vars

(***************************************************************************)
(* The fetchers' results.                                                  *)
(***************************************************************************)
Range(s) == { s[i] : i \in DOMAIN s }
Count(s, x) == Cardinality({ i \in DOMAIN s : s[i] = x })
Min(a, b) == IF a < b THEN a ELSE b

RailCalls == {"app.get_cta_arrivals", "cta.py"}
MetraCalls == {"app.get_metra_arrivals", "drv.get_metra_arrivals"}
BusCalls == {"app.get_bus_arrivals", "drv.get_bus_arrivals"}
Labels == { t.rt : t \in Trains }

\* Every arrival of the returned value.
ReturnedArrivals ==
    IF call \in RailCalls THEN UNION { Range(ret[r]) : r \in DOMAIN ret }
    ELSE Range(ret)

\* C1: every entry a fetcher returns has minutes >= 0.
C1_ReturnedMinutesNonNegative ==
    (call \in RailCalls \cup MetraCalls \cup BusCalls /\ ~raised)
        => \A a \in ReturnedArrivals : a.minutes >= 0

\* The arrivals of label r among the appended ones, in fetch order, and the
\* list returned for r (none when the label has no key).
Group(r) == SelectSeq(accepted, LAMBDA a : a.route = r)
Output(r) == IF r \in DOMAIN ret THEN ret[r] ELSE <<>>

\* position i of G comes before position j in a stable ascending sort
Before(G, i, j) ==
    \/ G[i].minutes < G[j].minutes
    \/ G[i].minutes = G[j].minutes /\ i < j

\* O is the first Len(O) elements of the stable ascending sort of G.
StablePrefix(O, G) ==
    \E f \in [1..Len(O) -> 1..Len(G)] :
        /\ \A i \in 1..Len(O) : O[i] = G[f[i]]
        /\ \A i, j \in 1..Len(O) : i < j => Before(G, f[i], f[j])
        /\ \A k \in 1..Len(G) :
              (\A i \in 1..Len(O) : f[i] /= k)
                  => \A i \in 1..Len(O) : Before(G, f[i], k)

\* C2: grouped top-3. For every label the returned list holds only that
\* label's arrivals, has min(3, size of the group) entries, ascends by
\* minutes, and is the stable sort's first entries (smallest minutes, equal
\* minutes in fetch order); labels without arrivals have no list.
C2_GroupedTopThree ==
    (call \in RailCalls /\ ~raised) =>
        /\ DOMAIN ret = { a.route : a \in Range(accepted) }
        /\ \A r \in Labels :
              /\ \A a \in Range(Output(r)) : a.route = r
              /\ Len(Output(r)) = Min(3, Len(Group(r)))
              /\ \A i \in 1..(Len(Output(r)) - 1) :
                    Output(r)[i].minutes <= Output(r)[i + 1].minutes
              /\ StablePrefix(Output(r), Group(r))

\* A line with four arrivals, two of them tied from different stations: the
\* list is cut to three and the tie is in station order.
C2_Witness ==
    /\ call = "app.get_cta_arrivals"
    /\ ~raised
    /\ Len(Group("G")) = 4
    /\ Len(ret["G"]) = 3
    /\ ret["G"][1].minutes = ret["G"][2].minutes
    /\ ret["G"][1].station = "Clark/Lake"
    /\ ret["G"][2].station = "Lake"
    /\ ret["G"][3].minutes = 2

\* C3: flat top-5. The list a commuter-rail or bus fetcher returns has
\* min(5, number of accepted arrivals) entries, ascends by minutes, is made
\* of accepted arrivals, and no accepted arrival left out has fewer minutes
\* than a returned one.
C3_FlatTopFive ==
    (call \in MetraCalls \cup BusCalls /\ ~raised) =>
        /\ Len(ret) = Min(5, Len(accepted))
        /\ \A i \in 1..(Len(ret) - 1) : ret[i].minutes <= ret[i + 1].minutes
        /\ \A x \in Range(ret) : Count(ret, x) <= Count(accepted, x)
        /\ \A x \in Range(accepted) :
              Count(ret, x) < Count(accepted, x)
                  => \A y \in Range(ret) : x.minutes >= y.minutes

\* Six accepted bus arrivals, not in order: five are returned and the one
\* left out is a largest.
C3_Witness ==
    /\ call = "app.get_bus_arrivals"
    /\ ~raised
    /\ Len(accepted) = 6
    /\ accepted[1].minutes = 12
    /\ accepted[6].minutes = 0
    /\ Len(ret) = 5
    /\ ret[1].minutes = 0
    /\ ret[5].minutes < 12

\* The integer a countdown string denotes: the n that str(n) writes as it.
CountdownValues == -99..99
IsNumeral(cd) == \E n \in CountdownValues : PyStr(n) = cd
IntValue(cd) == CHOOSE n \in CountdownValues : PyStr(n) = cd

\* The minutes the predictions of a response map to, in order: those of an
\* accepted route whose countdown is not DLY.
Eligible(resp, stop_info) ==
    IF resp.kind /= "ok" THEN <<>>
    ELSE SelectSeq(resp.prd, LAMBDA b : b.rt \in stop_info.routes
                                         /\ b.prdctdn /= DLY)
ExpectedMinutes(resp, stop_info) ==
    LET e == Eligible(resp, stop_info)
    IN  [k \in 1..Len(e) |->
            IF e[k].prdctdn = DUE THEN 0 ELSE IntValue(e[k].prdctdn)]
RECURSIVE ExpectedAll(_, _)
ExpectedAll(resps, i) ==
    IF i > Len(BUS_STOPS) THEN <<>>
    ELSE ExpectedMinutes(resps[i], BUS_STOPS[i]) \o ExpectedAll(resps, i + 1)

\* Every stop answered, and every countdown of an accepted route is "DUE",
\* "DLY" or an integer.
BusWellFormed ==
    \A i \in 1..Len(BUS_STOPS) :
        /\ request[i].kind \in {"ok", "noprd"}
        /\ \A k \in 1..Len(request[i].prd) :
              request[i].prd[k].rt \in BUS_STOPS[i].routes
                  => \/ request[i].prd[k].prdctdn \in {DUE, DLY}
                     \/ IsNumeral(request[i].prd[k].prdctdn)

\* C10: bus countdown mapping. A prediction yields an arrival iff its route
\* is accepted by the stop and its countdown is not "DLY"; the minutes are
\* 0 for "DUE" and the countdown's integer value otherwise; a response with
\* no predictions array yields nothing, without an error.
C10_BusCountdownMapping ==
    (call \in BusCalls /\ BusWellFormed) =>
        /\ ~raised
        /\ [k \in 1..Len(accepted) |-> accepted[k].minutes]
              = ExpectedAll(request, 1)

\* "DLY", "DUE", another route and a number in one response.
C10_Witness ==
    /\ call = "app.get_bus_arrivals"
    /\ request[1].kind = "ok"
    /\ request[1].prd = << Prd("2", DLY), Prd("6", <<"3">>),
                           Prd("2", <<"1", "2">>) >>
    /\ Len(accepted) = 1
    /\ accepted[1].minutes = 12
    /\ ~raised

\* A response without a predictions array.
C10_WitnessNoPrd ==
    /\ call = "drv.get_bus_arrivals"
    /\ request[1].kind = "noprd"
    /\ ret = <<>>

\* The stop-time updates of a feed in feed order, each with its entity.
RECURSIVE StopTimeUpdates(_)
StopTimeUpdates(entity) ==
    IF entity = <<>> THEN <<>>
    ELSE [j \in DOMAIN Head(entity).stop_time_update |->
             [e |-> Head(entity), u |-> Head(entity).stop_time_update[j]]]
         \o StopTimeUpdates(Tail(entity))

\* The time of an update: the departure when set, the arrival otherwise.
TimeOf(u) == IF u.departure /= 0 THEN u.departure ELSE u.arrival
Selected(p) ==
    /\ p.e.has_trip_update
    /\ p.e.route_id = "ME"
    /\ p.u.stop_id = "MILLENNIUM"
    /\ (p.u.departure /= 0 \/ p.u.arrival /= 0)
    /\ PyRoundDiv(TimeOf(p.u) - now, 60) >= 0
IsTripId(id) == Len(id) > 10 /\ id = TripId(SubSeq(id, 6, Len(id) - 5))

AllMetraCalls == MetraCalls \cup {"metra.py"}
ExampleFeed ==
    <<TripUpdate("ME", TripId(<<"3", "2", "0">>),
                 <<StopUpdate("MILLENNIUM", Some(600), None)>>)>>

C13_WitnessTimes ==
    /\ call = "metra.py"
    /\ request.kind = "ok"
    /\ Len(request.entity) = 2
    /\ request.entity[1].trip_id = TripId(<<"7", "0", "1">>)
    /\ request.entity[2].trip_id = TripId(<<"8", "0", "8">>)
    /\ [i \in DOMAIN accepted |-> accepted[i].minutes] = <<0, 0>>

(***************************************************************************)
(* The weather cache.                                                      *)
(***************************************************************************)
WeatherCalls == {"app.get_weather", "drv.get_weather"}
GetWeatherStep == AppGetWeather \/ DrvGetWeather
LastOk == history[Len(history)]

\* C4: cache hit. A get_weather call less than 600 seconds after the last
\* successful fetch issues no request, returns the value that fetch
\* returned and leaves the cache alone.
C4_CacheHit ==
    [][ (GetWeatherStep /\ history /= <<>> /\ now - LastOk.at < FRESH)
            => /\ net' = FALSE
               /\ ret' = Some(LastOk.temp)
               /\ raised' = FALSE
               /\ weather_cache' = weather_cache
               /\ history' = history ]_vars

\* A call 599 seconds after a successful fetch that answered from the cache.
C4_Witness ==
    /\ call \in WeatherCalls
    /\ history /= <<>>
    /\ now - LastOk.at = FRESH - 1
    /\ net = FALSE
    /\ ret = Some(LastOk.temp)

\* C5: a failing fetch does not raise, returns the cached value and leaves
\* temp and last_updated as they were; and a known temp never becomes
\* unknown again.
C5_FailureKeepsLastGood ==
    [][ /\ (GetWeatherStep /\ net' /\ request'.kind \in WeatherFailKinds)
            => /\ raised' = FALSE
               /\ ret' = weather_cache.temp
               /\ weather_cache' = weather_cache
        /\ weather_cache.temp /= None => weather_cache'.temp /= None ]_vars

\* A fetch that failed after an earlier success: the earlier value is
\* returned and still cached.
C5_Witness ==
    /\ call \in WeatherCalls
    /\ net
    /\ request.kind = "neterr"
    /\ history /= <<>>
    /\ now - LastOk.at > FRESH
    /\ ret = Some(LastOk.temp)
    /\ weather_cache = [temp |-> Some(LastOk.temp),
                        last_updated |-> Some(LastOk.at)]

\* The whole degrees nearest to a temperature given in tenths.
Nearest(v, tenths) == 10 * v - tenths <= 5 /\ tenths - 10 * v <= 5

\* C6: a get_weather call issues a request exactly when the cache holds no
\* value or 600 seconds or more have passed since the last successful
\* fetch; a successful request sets temp to the rounded temperature and
\* last_updated to the call's now, and the call returns the new value.
C6_StaleTriggersRefresh ==
    [][ GetWeatherStep =>
          /\ net' <=> (\/ weather_cache.temp = None
                       \/ history = <<>>
                       \/ now - LastOk.at >= FRESH)
          /\ (net' /\ request'.kind = "ok") =>
                /\ weather_cache'.temp /= None
                /\ Nearest(weather_cache'.temp[1], request'.temperature)
                /\ weather_cache'.last_updated = Some(now)
                /\ ret' = weather_cache'.temp ]_vars

\* A second successful fetch exactly 600 seconds after the first.
C6_Witness ==
    /\ call \in WeatherCalls
    /\ net
    /\ Len(history) = 2
    /\ history[2].at - history[1].at = FRESH
    /\ now = history[2].at
    /\ history[2].temp /= history[1].temp
    /\ ret = Some(history[2].temp)
    /\ weather_cache.last_updated = Some(now)

(***************************************************************************)
(* The rendered arrival slots.                                             *)
(***************************************************************************)
RenderCalls == {"app.led", "drv.build_grid"}

\* The four arrival slots: the list, the index in it, and where it is drawn.
Slots == { [src |-> "metra", index |-> 0, x |-> 12, y |-> 17],
           [src |-> "metra", index |-> 1, x |-> 24, y |-> 17],
           [src |-> "bus", index |-> 0, x |-> 12, y |-> 27],
           [src |-> "bus", index |-> 1, x |-> 24, y |-> 27] }
Shown(slot) == IF slot.src = "metra" THEN ret.metra ELSE ret.bus
Present(slot) == Len(Shown(slot)) > slot.index
MinutesOf(slot) == Shown(slot)[slot.index + 1].minutes

\* The draw_text calls at the slot's position.
SlotDraws(slot) ==
    SelectSeq(draws, LAMBDA d : d.x = slot.x /\ d.y = slot.y)
DrawnAs(slot, text, color) ==
    /\ Len(SlotDraws(slot)) = 1
    /\ SlotDraws(slot)[1].text = text
    /\ SlotDraws(slot)[1].color = color

\* The cells of the slot in the grid: seven columns, five rows.
SlotCells(slot) == (slot.x..(slot.x + 6)) \X (slot.y..(slot.y + 4))
LitIn(slot, color) ==
    /\ \E c \in SlotCells(slot) : grid[c[2]][c[1]] /= 0
    /\ \A c \in SlotCells(slot) : grid[c[2]][c[1]] \in {0, color}

\* t is the decimal writing of m: int(t) is m, with no sign or leading zero.
IsDecimalOf(t, m) ==
    /\ AllDigits(t)
    /\ PyInt(t).v = m
    /\ (Len(t) > 1 => t[1] /= "0")

\* The rule of the claim for one slot.
ColorRule(slot) ==
    /\ MinutesOf(slot) = 0 => /\ DrawnAs(slot, <<"0">>, HIGHLIGHT)
                              /\ LitIn(slot, HIGHLIGHT)
    /\ MinutesOf(slot) = 1 => /\ DrawnAs(slot, <<"1">>, HIGHLIGHT)
                              /\ LitIn(slot, HIGHLIGHT)
    /\ MinutesOf(slot) >= 2 =>
          /\ \E t \in {SlotDraws(slot)[1].text} :
                IsDecimalOf(t, MinutesOf(slot)) /\ DrawnAs(slot, t, PRIMARY)
          /\ LitIn(slot, PRIMARY)

\* The first time of a row: the same digits, always in HIGHLIGHT.
FirstRule(slot) ==
    MinutesOf(slot) >= 0 =>
        /\ \E t \in {SlotDraws(slot)[1].text} :
              IsDecimalOf(t, MinutesOf(slot)) /\ DrawnAs(slot, t, HIGHLIGHT)
        /\ LitIn(slot, HIGHLIGHT)

\* C7 as stated: every arrival slot, first or second, shows 0 and 1 in
\* HIGHLIGHT and 2 or more in PRIMARY.
C7_ColorRuleInEverySlot ==
    (call \in RenderCalls /\ ~raised) =>
        \A slot \in Slots : Present(slot) => ColorRule(slot)

\* C7, amended: the second time of a row shows 0 as "0" and 1 as "1" in
\* HIGHLIGHT and 2 or more as its decimal digits in PRIMARY; the first time
\* of a row shows the same digits, in HIGHLIGHT whatever the value.
C7_ColorRule ==
    (call \in RenderCalls /\ ~raised) =>
        \A slot \in Slots :
            Present(slot) =>
                IF slot.index = 0 THEN FirstRule(slot) ELSE ColorRule(slot)

\* Commuter rail in 1 and 2 minutes, a bus in 12: "1" and "12" are first
\* times, in HIGHLIGHT; "2" is a second time, in PRIMARY.
C7_Witness ==
    /\ call = "drv.build_grid"
    /\ ret.metra = <<[minutes |-> 1], [minutes |-> 2]>>
    /\ ret.bus = <<[minutes |-> 12]>>
    /\ \E i, j, k \in DOMAIN draws :
          /\ draws[i] = Text(<<"1">>, 12, 17, HIGHLIGHT)
          /\ draws[j] = Text(<<"2">>, 24, 17, PRIMARY)
          /\ draws[k] = Text(<<"1", "2">>, 12, 27, HIGHLIGHT)
    /\ grid[17][25] = PRIMARY
    /\ grid[27][13] = HIGHLIGHT

\* The cells of "--" drawn at (x, y): two dashes of three cells, on the
\* third row of the glyphs.
DashCells(slot) ==
    ((slot.x..(slot.x + 2)) \cup ((slot.x + 4)..(slot.x + 6))) \X {slot.y + 2}

\* C8: an arrival slot whose index is not in its list is drawn as "--" in
\* PRIMARY at the slot's position (x 12 or 24, y 17 or 27); in the grid the
\* slot holds the two dashes in PRIMARY and nothing else.
C8_Placeholder ==
    (call \in RenderCalls /\ ~raised) =>
        \A slot \in Slots :
            ~Present(slot) =>
                /\ DrawnAs(slot, Dashes, PRIMARY)
                /\ \A c \in SlotCells(slot) :
                      grid[c[2]][c[1]] =
                          IF c \in DashCells(slot) THEN PRIMARY ELSE 0

\* No commuter-rail and no bus arrival: four "--" in PRIMARY.
C8_Witness ==
    /\ call = "app.led"
    /\ ~raised
    /\ ret.metra = <<>>
    /\ ret.bus = <<>>
    /\ \A slot \in Slots : DrawnAs(slot, Dashes, PRIMARY)
    /\ grid[19][12] = PRIMARY
    /\ grid[29][30] = PRIMARY

\* The grid is complete: 32 rows of 32 cells, each 0, 1 or 2.
Complete(g) ==
    /\ DOMAIN g = 0..(SIZE - 1)
    /\ \A y \in 0..(SIZE - 1) :
          /\ DOMAIN g[y] = 0..(SIZE - 1)
          /\ \A x \in 0..(SIZE - 1) : g[y][x] \in {0, PRIMARY, HIGHLIGHT}

MetraFailed == request.metra.kind \in MetraFailKinds
BusFailed == \E i \in DOMAIN request.bus : request.bus[i].kind \in BusFailKinds

\* C9: when the upstream call of one fetcher fails, the fetcher returns an
\* empty list and does not raise, the other fetcher's result is what its
\* own answer gives, and the render is a complete grid with "--" in the
\* failed source's slots.
C9_FailureIsolation ==
    (call \in RenderCalls /\ (MetraFailed \/ BusFailed)) =>
        /\ ~raised
        /\ Complete(grid)
        /\ MetraFailed =>
              /\ ret.metra = <<>>
              /\ \A slot \in Slots :
                    slot.src = "metra" => DrawnAs(slot, Dashes, PRIMARY)
        /\ BusFailed =>
              /\ ret.bus = <<>>
              /\ \A slot \in Slots :
                    slot.src = "bus" => DrawnAs(slot, Dashes, PRIMARY)
        /\ ~MetraFailed =>
              ret.metra = IF call = "app.led"
                          THEN get_metra_arrivals(request.metra, now).value
                          ELSE drv_get_metra_arrivals(request.metra, now).value
        /\ ~BusFailed =>
              ret.bus = IF call = "app.led"
                        THEN get_bus_arrivals(request.bus).value
                        ELSE drv_get_bus_arrivals(request.bus).value

\* The same of led_driver.py alone.
DrvFailureIsolation ==
    call = "drv.build_grid" => C9_FailureIsolation

\* The column of the separator cell: grid[19][21] in app.py, grid[19][20] in
\* led_driver.py.
SeparatorX == IF call = "app.led" THEN 21 ELSE 20

\* C15: the grid a render returns, whatever the date, the time, the
\* temperature and the arrival lists, is 32x32 with every cell 0, 1 or 2, has
\* PRIMARY in every cell of rows 14 and 24 and in the separator cell of
\* row 19 and of row 29.
C15_LayoutInvariant ==
    (call \in RenderCalls /\ ~raised) =>
        /\ Complete(grid)
        /\ \A x \in 0..(SIZE - 1) :
              grid[14][x] = PRIMARY /\ grid[24][x] = PRIMARY
        /\ grid[19][SeparatorX] = PRIMARY
        /\ grid[29][SeparatorX] = PRIMARY

\* A first bus in 120 minutes: the third digit, in HIGHLIGHT, runs over
\* columns 20 to 22 and the separator cell between them is PRIMARY.
C15_Witness ==
    /\ call = "drv.build_grid"
    /\ Len(ret.bus) > 0
    /\ ret.bus[1].minutes = 120
    /\ grid[27][20] = HIGHLIGHT
    /\ grid[29][22] = HIGHLIGHT
    /\ grid[29][20] = PRIMARY
    /\ grid[24][20] = PRIMARY

(***************************************************************************)
(* get_weather on several threads.                                         *)
(***************************************************************************)
Requesting == { th \in Threads : threads[th].pc = "requesting" }

\* C12: with get_weather running on several threads, interleaved at the
\* cache read, the upstream request and the cache writes, a second upstream
\* request is never issued while one is being fetched, and two fetched
\* values are never stored for the same 600-second window.
C12_OneRequestPerWindow ==
    /\ Cardinality(Requesting) <= 1
    /\ \A i, j \in DOMAIN history :
          i < j => \/ history[j].at - history[i].at >= FRESH
                   \/ history[i].at - history[j].at >= FRESH

(***************************************************************************)
(* draw_text.                                                              *)
(***************************************************************************)
DrawCalls == {"app.draw_text", "drv.draw_text"}
FontOf(op) == IF op = "drv.draw_text" THEN DRV_FONT_3X5 ELSE FONT_3X5
Cells == (0..(SIZE - 1)) \X (0..(SIZE - 1))

\* The characters of a text that have a glyph, and where the k-th of them
\* starts: after the widths of those before it and one blank column each.
Known(font, text) == SelectSeq(text, LAMBDA c : c \in DOMAIN font)
RECURSIVE Advance(_, _, _)
Advance(font, known, k) ==
    IF k <= 1 THEN 0
    ELSE Advance(font, known, k - 1) + Len(font[known[k - 1]][1]) + 1

\* The positions <<x, y>>, on the grid or not, of the set bits of the glyphs
\* of a text that starts at <<start_x, start_y>>.
GlyphBits(font, text, start_x, start_y) ==
    LET known == Known(font, text)
    IN  UNION { UNION { { <<start_x + Advance(font, known, k) + c - 1,
                            start_y + r - 1>> :
                          c \in { c \in DOMAIN font[known[k]][r] :
                                    font[known[k]][r][c] = 1 } } :
                        r \in DOMAIN font[known[k]] } :
                k \in DOMAIN known }
RequestBits ==
    GlyphBits(FontOf(call), request.text, request.start_x, request.start_y)

\* C11: draw_text raises nothing for any text, start position (before the
\* grid, on it or past it) and color; the grid keeps its 32x32 shape; a cell
\* that differs from the grid given is the set bit of a drawn glyph and holds
\* the color; a text whose set bits all lie off the grid leaves the grid as
\* it was.
C11_Clipping ==
    call \in DrawCalls =>
        /\ ~raised
        /\ Complete(grid)
        /\ LET bits == RequestBits
           IN  /\ \A y, x \in 0..(SIZE - 1) :
                     grid[y][x] /= request.grid[y][x]
                         => <<x, y>> \in bits /\ grid[y][x] = request.color
               /\ bits \cap Cells = {} => grid = request.grid

\* A "1" that starts one column before the grid is drawn in part; the same
\* text three columns before the grid would be all off it.
C11_Witness ==
    /\ call \in DrawCalls
    /\ request.text = <<"1">>
    /\ request.start_x = -1
    /\ request.start_y = SIZE - 2
    /\ request.grid = EmptyGrid
    /\ grid[SIZE - 2][0] = request.color
    /\ grid[SIZE - 1][0] = request.color
    /\ grid[SIZE - 1][1] = 0

\* C14: the k-th character of a text that has a glyph is drawn with its
\* left column at start_x plus, for each such character before it, its
\* glyph's width and one; a character without a glyph draws nothing and does
\* not move the cursor, so the grid is the one the text without those
\* characters gives.
C14_CursorAdvance ==
    call \in DrawCalls =>
        /\ ~raised
        /\ LET bits == RequestBits
           IN  \A y, x \in 0..(SIZE - 1) :
                  grid[y][x] = IF <<x, y>> \in bits THEN request.color
                               ELSE request.grid[y][x]
        /\ grid = DrawChars(FontOf(call), request.grid,
                            Known(FontOf(call), request.text),
                            request.start_x, request.start_y, request.color)

\* "1x2" at column 12: the "2" starts at column 16, straight after the "1"
\* and its blank column.
C14_Witness ==
    /\ call = "app.draw_text"
    /\ request.text = <<"1", "x", "2">>
    /\ request.start_x = 12
    /\ request.start_y = 12
    /\ request.grid = EmptyGrid
    /\ grid[12][13] = request.color
    /\ grid[12][15] = 0
    /\ grid[12][16] = request.color
    /\ grid[13][18] = request.color
    /\ grid[13][16] = 0

====
